---- MODULE Spec2Model ----
(***************************************************************************)
(* Model of dev/complete/realtime-metrics-dashboard/generate_prompts.py:   *)
(* a table of task records, the templating function generate_prompt and    *)
(* the module-level loop that writes one file per record.                  *)
(*                                                                         *)
(* Text is modelled structurally.  A document is a sequence of lines and a *)
(* line is a sequence of string pieces: the literal parts of the f-string  *)
(* and the interpolated values, in order.  A file name is one string.      *)
(* The backtick and the double quote are pieces of their own, BT and DQ.    *)
(***************************************************************************)
EXTENDS Integers, Sequences, FiniteSets, TLC

\* Pieces standing for the backtick and the double quote character.
BT == "<backtick>"

DQ == "<dquote>"

(***************************************************************************)
(* Bounds of the explored inputs.                                          *)
(***************************************************************************)
MaxRecords == 3
MaxRuns == 2

(***************************************************************************)
(* Program constants.                                                      *)
(***************************************************************************)
base_dir == "C:/Users/bobby/src/claude/claude-hall-monitor/dev/active/realtime-metrics-dashboard/prompts"

LastNum == 32

prompts_table ==
  <<
    [ num |-> 10,
      title |-> "Install shadcn/ui Data Display Components",
      objective |-> "Install shadcn/ui components for data display: card, badge, progress, table, tabs.",
      depends |-> <<"F003">>,
      files |-> <<"src/components/ui/*">>,
      commands |-> "bun x shadcn@latest add card badge progress table tabs",
      scope |-> "shadcn-data" ],
    [ num |-> 11,
      title |-> "Install shadcn/ui Form & Feedback Components",
      objective |-> "Install shadcn/ui components: button, input, select, dropdown-menu, tooltip, skeleton, toast, alert.",
      depends |-> <<"F003">>,
      files |-> <<"src/components/ui/*">>,
      commands |-> "bun x shadcn@latest add button input select dropdown-menu tooltip skeleton toast alert",
      scope |-> "shadcn-forms" ],
    [ num |-> 12,
      title |-> "Install shadcn/ui Chart Components",
      objective |-> "Install shadcn/ui chart components and Recharts dependency.",
      depends |-> <<"F003">>,
      files |-> <<"src/components/ui/chart.tsx">>,
      commands |-> "bun x shadcn@latest add chart",
      scope |-> "shadcn-charts" ],
    [ num |-> 13,
      title |-> "Build Layout Components",
      objective |-> "Create app-sidebar, header, and page-container layout components.",
      depends |-> <<"F009">>,
      files |-> <<"src/components/layout/app-sidebar.tsx", "src/components/layout/header.tsx", "src/components/layout/page-container.tsx">>,
      commands |-> "",
      scope |-> "layout",
      decisions |-> <<"D003">>,
      code_refs |-> <<"code/typescript.md#components">> ],
    [ num |-> 14,
      title |-> "Create App Shell with Layout",
      objective |-> "Update App.tsx with sidebar, header, and main content area layout.",
      depends |-> <<"F004", "F013">>,
      files |-> <<"src/App.tsx">>,
      commands |-> "",
      scope |-> "app-shell",
      code_refs |-> <<"code/typescript.md#components">> ],
    [ num |-> 15,
      title |-> "Build Plan Card Components",
      objective |-> "Create plan-card (expanded) and plan-card-compact components.",
      depends |-> <<"F010">>,
      files |-> <<"src/components/plans/plan-card.tsx", "src/components/plans/plan-card-compact.tsx">>,
      commands |-> "",
      scope |-> "plans",
      decisions |-> <<"D009">>,
      edge_cases |-> <<"EC003">>,
      code_refs |-> <<"code/typescript.md#components">> ],
    [ num |-> 16,
      title |-> "Build Active Orchestrations Component",
      objective |-> "Create active-orchestrations component with SSE integration for realtime updates.",
      depends |-> <<"F015", "F008">>,
      files |-> <<"src/components/plans/active-orchestrations.tsx">>,
      commands |-> "",
      scope |-> "plans",
      decisions |-> <<"D001", "D007">>,
      edge_cases |-> <<"EC001", "EC002", "EC003">>,
      code_refs |-> <<"code/typescript.md#components">> ],
    [ num |-> 17,
      title |-> "Build Metrics Display Components",
      objective |-> "Create stat-card and metrics-grid components.",
      depends |-> <<"F010">>,
      files |-> <<"src/components/metrics/stat-card.tsx", "src/components/metrics/metrics-grid.tsx">>,
      commands |-> "",
      scope |-> "metrics",
      code_refs |-> <<"code/typescript.md#components">> ],
    [ num |-> 18,
      title |-> "Build Chart Components",
      objective |-> "Create cost-chart (area) and tokens-chart (bar) components using Recharts.",
      depends |-> <<"F012">>,
      files |-> <<"src/components/metrics/cost-chart.tsx", "src/components/metrics/tokens-chart.tsx">>,
      commands |-> "",
      scope |-> "metrics",
      decisions |-> <<"D011">>,
      code_refs |-> <<"code/typescript.md#components">> ],
    [ num |-> 19,
      title |-> "Build Plan List and Detail Components",
      objective |-> "Create plan-list, plan-detail, and feature-list components.",
      depends |-> <<"F010">>,
      files |-> <<"src/components/plans/plan-list.tsx", "src/components/plans/plan-detail.tsx", "src/components/plans/feature-list.tsx">>,
      commands |-> "",
      scope |-> "plans",
      decisions |-> <<"D004">>,
      edge_cases |-> <<"EC008", "EC009">>,
      code_refs |-> <<"code/typescript.md#components">> ],
    [ num |-> 20,
      title |-> "Build Orchestration Timeline",
      objective |-> "Create orchestration-timeline component for visual parallel execution.",
      depends |-> <<"F010">>,
      files |-> <<"src/components/plans/orchestration-timeline.tsx">>,
      commands |-> "",
      scope |-> "plans",
      decisions |-> <<"D005">>,
      code_refs |-> <<"code/typescript.md#components">> ],
    [ num |-> 21,
      title |-> "Build Session Components",
      objective |-> "Create session-list, session-detail, and tool-usage-chart components.",
      depends |-> <<"F010", "F012">>,
      files |-> <<"src/components/sessions/session-list.tsx", "src/components/sessions/session-detail.tsx", "src/components/sessions/tool-usage-chart.tsx">>,
      commands |-> "",
      scope |-> "sessions",
      edge_cases |-> <<"EC005">>,
      code_refs |-> <<"code/typescript.md#components">> ],
    [ num |-> 22,
      title |-> "Build Overview Page",
      objective |-> "Assemble Overview page with ActiveOrchestrations, MetricsGrid, and Charts.",
      depends |-> <<"F016", "F017", "F018">>,
      files |-> <<"src/pages/overview.tsx">>,
      commands |-> "",
      scope |-> "overview",
      decisions |-> <<"D001">>,
      edge_cases |-> <<"EC002">>,
      code_refs |-> <<"code/typescript.md#components">> ],
    [ num |-> 23,
      title |-> "Build Plans Page",
      objective |-> "Assemble Plans page with tabs, PlanList, PlanDetail, and OrchestrationTimeline.",
      depends |-> <<"F019", "F020">>,
      files |-> <<"src/pages/plans.tsx">>,
      commands |-> "",
      scope |-> "plans",
      decisions |-> <<"D004", "D005">>,
      code_refs |-> <<"code/typescript.md#components">> ],
    [ num |-> 24,
      title |-> "Build Sessions Page",
      objective |-> "Assemble Sessions page with filters, SessionList, and SessionDetail.",
      depends |-> <<"F021">>,
      files |-> <<"src/pages/sessions.tsx">>,
      commands |-> "",
      scope |-> "sessions",
      decisions |-> <<"D004">>,
      edge_cases |-> <<"EC005">>,
      code_refs |-> <<"code/typescript.md#components">> ],
    [ num |-> 25,
      title |-> "Build Settings Page",
      objective |-> "Create Settings page with theme toggle and preferences.",
      depends |-> <<"F011">>,
      files |-> <<"src/pages/settings.tsx">>,
      commands |-> "",
      scope |-> "settings",
      code_refs |-> <<"code/typescript.md#components">> ],
    [ num |-> 26,
      title |-> "Implement Loading and Error States",
      objective |-> "Add skeletons, error boundaries, toasts, and empty states to all pages.",
      depends |-> <<"F011", "F022", "F023", "F024">>,
      files |-> <<"src/components/ui/error-boundary.tsx", "src/lib/toast.ts">>,
      commands |-> "",
      scope |-> "polish",
      edge_cases |-> <<"EC002", "EC004", "EC010">>,
      code_refs |-> <<"code/typescript.md#error-handling">> ],
    [ num |-> 27,
      title |-> "Add Responsive Design",
      objective |-> "Implement mobile viewport handling with collapsible sidebar.",
      depends |-> <<"F014">>,
      files |-> <<"src/App.tsx", "src/components/layout/app-sidebar.tsx">>,
      commands |-> "",
      scope |-> "responsive",
      edge_cases |-> <<"EC007">>,
      code_refs |-> <<"code/css.md#responsive">> ],
    [ num |-> 28,
      title |-> "Implement Keyboard Shortcuts",
      objective |-> "Add keyboard shortcuts for navigation and sidebar toggle.",
      depends |-> <<"F014", "F022", "F023", "F024">>,
      files |-> <<"src/hooks/use-keyboard.ts", "src/App.tsx">>,
      commands |-> "",
      scope |-> "keyboard",
      code_refs |-> <<"code/typescript.md#hooks">> ],
    [ num |-> 29,
      title |-> "Theme Persistence and System Integration",
      objective |-> "Implement localStorage theme persistence with system theme fallback.",
      depends |-> <<"F025">>,
      files |-> <<"src/hooks/use-theme.ts", "src/pages/settings.tsx">>,
      commands |-> "",
      scope |-> "theme",
      edge_cases |-> <<"EC006">>,
      code_refs |-> <<"code/typescript.md#hooks">> ],
    [ num |-> 30,
      title |-> "Update Server Integration",
      objective |-> "Modify server.ts to serve React build from dist/.",
      depends |-> <<"F022", "F023", "F024">>,
      files |-> <<"hooks/viewer/server.ts">>,
      commands |-> "",
      scope |-> "server",
      decisions |-> <<"D012">>,
      code_refs |-> <<"code/typescript.md#server">> ],
    [ num |-> 31,
      title |-> "Configure Vite Build Process",
      objective |-> "Configure vite.config.ts and update build.ts for production builds.",
      depends |-> <<"F001", "F030">>,
      files |-> <<"hooks/viewer/vite.config.ts", "hooks/build.ts">>,
      commands |-> "",
      scope |-> "build",
      code_refs |-> <<"code/html.md#vite-config", "code/bash.md#build">> ],
    [ num |-> 32,
      title |-> "Integration Testing and Verification",
      objective |-> "Test all pages with real API, verify SSE, theme, and keyboard shortcuts.",
      depends |-> <<"F031">>,
      files |-> <<"src/__tests__/integration.test.tsx">>,
      commands |-> "",
      scope |-> "testing",
      code_refs |-> <<"code/typescript.md#testing">> ]
  >>

(***************************************************************************)
(* Formatting: the "d" presentation type with zero padding to a width.     *)
(***************************************************************************)
Digit(d) ==
  CASE d = 0 -> "0" [] d = 1 -> "1" [] d = 2 -> "2" [] d = 3 -> "3"
    [] d = 4 -> "4" [] d = 5 -> "5" [] d = 6 -> "6" [] d = 7 -> "7"
    [] d = 8 -> "8" [] d = 9 -> "9"

RECURSIVE Dec(_)
Dec(n) ==
  IF n < 10 THEN Digit(n) ELSE Dec(n \div 10) \o Digit(n % 10)

RECURSIVE ZeroFill(_, _)
ZeroFill(s, w) ==
  IF Len(s) >= w THEN s ELSE ZeroFill("0" \o s, w)

\* Variant: the width is ignored, as with a plain {num} field.
Fmt_unpadded(n, w) ==
  Dec(n)

Fmt(n, w) ==
  ZeroFill(Dec(n), w)

(***************************************************************************)
(* dict.get(key, default), list truthiness, str.join, str.lower.           *)
(***************************************************************************)
get(p, k, default) ==
  IF k \in DOMAIN p THEN p[k] ELSE default

RECURSIVE join_str(_, _)
join_str(xs, sep) ==
  IF xs = <<>> THEN ""
  ELSE IF Len(xs) = 1 THEN xs[1]
  ELSE xs[1] \o sep \o join_str(Tail(xs), sep)

\* chr(10).join(bullets) placed on a line of its own: the bullets, one per
\* line, or a single empty line when there is no bullet.
join_lines(bullets) ==
  IF bullets = <<>> THEN << <<"">> >> ELSE bullets

\* str.lower, tabulated on the titles that occur.
lower(s) ==
  CASE s = "Build Layout" -> "build layout"
     [] s = "Plan Card" -> "plan card"
     [] s = "vite build" -> "vite build"
     [] s = "Install shadcn/ui Data Display Components" ->
          "install shadcn/ui data display components"
     [] s = "Install shadcn/ui Form & Feedback Components" ->
          "install shadcn/ui form & feedback components"
     [] s = "Install shadcn/ui Chart Components" ->
          "install shadcn/ui chart components"
     [] s = "Build Layout Components" ->
          "build layout components"
     [] s = "Create App Shell with Layout" ->
          "create app shell with layout"
     [] s = "Build Plan Card Components" ->
          "build plan card components"
     [] s = "Build Active Orchestrations Component" ->
          "build active orchestrations component"
     [] s = "Build Metrics Display Components" ->
          "build metrics display components"
     [] s = "Build Chart Components" ->
          "build chart components"
     [] s = "Build Plan List and Detail Components" ->
          "build plan list and detail components"
     [] s = "Build Orchestration Timeline" ->
          "build orchestration timeline"
     [] s = "Build Session Components" ->
          "build session components"
     [] s = "Build Overview Page" ->
          "build overview page"
     [] s = "Build Plans Page" ->
          "build plans page"
     [] s = "Build Sessions Page" ->
          "build sessions page"
     [] s = "Build Settings Page" ->
          "build settings page"
     [] s = "Implement Loading and Error States" ->
          "implement loading and error states"
     [] s = "Add Responsive Design" ->
          "add responsive design"
     [] s = "Implement Keyboard Shortcuts" ->
          "implement keyboard shortcuts"
     [] s = "Theme Persistence and System Integration" ->
          "theme persistence and system integration"
     [] s = "Update Server Integration" ->
          "update server integration"
     [] s = "Configure Vite Build Process" ->
          "configure vite build process"
     [] s = "Integration Testing and Verification" ->
          "integration testing and verification"

(***************************************************************************)
(* generate_prompt, section by section.                                    *)
(***************************************************************************)
\* next_num is an optional value: <<n>> or <<>> for None.
next_num(num) ==
  IF num < LastNum THEN <<num + 1>> ELSE <<>>

\* Truthiness of an optional integer: None and 0 are false.
truthy_opt(o) ==
  o # <<>> /\ o[1] # 0

header_part(num, title, deps, obj) ==
  << <<"# Feature: F", Fmt(num, 3), " - ", title>>,
     <<"">>,
     <<"## Project Context">>,
     <<"">>,
     <<"See ", BT, "context.md", BT, " for feature rationale and architecture vision.">>,
     <<"">>,
     <<"## Prior Work">>,
     <<"">> >>
  \o join_lines([i \in 1..Len(deps) |-> <<"- **", deps[i], "**: Completed">>])
  \o << <<"">>,
        <<"## Objective">>,
        <<"">>,
        <<obj>>,
        <<"">>,
        <<"> **Scope Constraint**: It is unacceptable to implement features beyond this task's scope.">> >>

decisions_section(decisions) ==
  IF decisions # <<>>
  THEN << <<"">>,
          <<"## Relevant Decisions">>,
          <<"">>,
          <<"From ", BT, "decisions.md", BT, ":">> >>
       \o join_lines([i \in 1..Len(decisions) |->
                        <<"- **", decisions[i], "**: See decisions.md for details">>])
  ELSE <<>>

edge_cases_section(edge_cases) ==
  IF edge_cases # <<>>
  THEN << <<"">>,
          <<"## Edge Cases to Handle">>,
          <<"">>,
          <<"From ", BT, "edge-cases.md", BT, ":">> >>
       \o join_lines([i \in 1..Len(edge_cases) |->
                        <<"- **", edge_cases[i], "**: See edge-cases.md for handling details">>])
  ELSE <<>>

code_refs_section(code_refs) ==
  IF code_refs # <<>>
  THEN << <<"">>,
          <<"## Code References">>,
          <<"">>,
          <<"Read these sections before implementing:">> >>
       \o join_lines([i \in 1..Len(code_refs) |->
                        <<"- ", BT, code_refs[i], BT, " - Implementation patterns">>])
  ELSE <<>>

constraints_part(cmds) ==
  << <<"">>,
     <<"## Constraints">>,
     <<"">>,
     <<"- See ", BT, "constraints.md", BT, " for global rules">> >>
  \o (IF cmds # "" THEN << <<"- Install components using: ", BT, cmds, BT>> >> ELSE <<>>)

files_part(files) ==
  << <<"">>,
     <<"## Files to Create/Modify">>,
     <<"">>,
     <<"| File | Purpose |">>,
     <<"|------|---------|">> >>
  \o [i \in 1..Len(files) |-> <<"| ", BT, "hooks/viewer/", files[i], BT, " | See objective |">>]

implementation_part(cmds) ==
  IF cmds # ""
  THEN << <<"">>,
          <<"## Implementation Details">>,
          <<"">>,
          <<"Run these commands:">>,
          <<BT, BT, BT, "bash">>,
          <<"cd C:/Users/bobby/src/claude/claude-hall-monitor/hooks/viewer">>,
          <<cmds>>,
          <<BT, BT, BT>> >>
  ELSE << <<"">>,
          <<"## Implementation Details">>,
          <<"">>,
          <<"See code references for complete implementation patterns.">> >>

commit_part(num, title, obj, scope) ==
  << <<"">>,
     <<"## Acceptance Criteria">>,
     <<"">>,
     <<"- [ ] All files created/modified as specified">>,
     <<"- [ ] TypeScript compiles without errors">>,
     <<"- [ ] Functionality works as expected">>,
     <<"">>,
     <<"## Verification">>,
     <<"">>,
     <<BT, BT, BT, "bash">>,
     <<"cd C:/Users/bobby/src/claude/claude-hall-monitor/hooks/viewer">>,
     <<"bun run tsc --noEmit">>,
     <<BT, BT, BT>> >>
  \o
  << <<"">>,
     <<"## Commit">>,
     <<"">>,
     <<BT, BT, BT, "bash">>,
     <<"git add hooks/viewer/">>,
     <<"git commit -m ", DQ, "$(cat <<'EOF'">>,
     <<"feat(", scope, "): ", lower(title)>>,
     <<"">>,
     <<obj>>,
     <<"">>,
     <<"Implements: F", Fmt(num, 3)>> >>

commit_decisions_line(decisions) ==
  IF decisions # <<>>
  THEN << <<"Decisions: ", join_str(decisions, ", ")>> >>
  ELSE <<>>

\* Variant: the line is appended without the test on the list.
commit_edge_cases_line_always(edge_cases) ==
  << <<"Edge Cases: ", join_str(edge_cases, ", ")>> >>

commit_edge_cases_line(edge_cases) ==
  IF edge_cases # <<>>
  THEN << <<"Edge Cases: ", join_str(edge_cases, ", ")>> >>
  ELSE <<>>

attribution_part ==
  << <<"">>,
     \* the line opens with a pictograph, left out here
     <<"Generated with [Claude Code](https://claude.com/claude-code)">>,
     <<"">>,
     <<"Co-Authored-By: Claude Opus 4.5 <noreply@anthropic.com>">>,
     <<"EOF">>,
     <<")", DQ>>,
     <<BT, BT, BT>> >>

footer_part(num) ==
  IF truthy_opt(next_num(num))
  THEN << <<"">>,
          <<"## Next">>,
          <<"">>,
          <<"Proceed to: ", BT, "prompts/", Fmt(next_num(num)[1], 2), "-*.md", BT, " (F",
            Fmt(next_num(num)[1], 3), ")">> >>
  ELSE << <<"">>,
          <<"## Next">>,
          <<"">>,
          <<"All features complete! Create manifest.jsonl and README.md.">> >>

generate_prompt(p) ==
  LET num == p["num"]
      title == p["title"]
      obj == p["objective"]
      deps == get(p, "depends", <<>>)
      files == get(p, "files", <<>>)
      cmds == get(p, "commands", "")
      scope == get(p, "scope", "viewer")
      decisions == get(p, "decisions", <<>>)
      edge_cases == get(p, "edge_cases", <<>>)
      code_refs == get(p, "code_refs", <<>>)
  IN  header_part(num, title, deps, obj)
      \o decisions_section(decisions)
      \o edge_cases_section(edge_cases)
      \o code_refs_section(code_refs)
      \o constraints_part(cmds)
      \o files_part(files)
      \o implementation_part(cmds)
      \o commit_part(num, title, obj, scope)
      \o commit_decisions_line(decisions)
      \o commit_edge_cases_line(edge_cases)
      \o attribution_part
      \o footer_part(num)

\* Variant: the file name is built from the number alone.
filename_of_number_only(p) ==
  base_dir \o "/" \o Fmt(p["num"], 2) \o ".md"

\* The file name the loop builds for a record.
filename_of(p) ==
  base_dir \o "/" \o Fmt(p["num"], 2) \o "-" \o p["scope"] \o ".md"

(***************************************************************************)
(* Inputs: record lists the loop can be run on.                            *)
(***************************************************************************)
shape_full ==
  [ title |-> "Build Layout", objective |-> "Create the layout.",
    depends |-> <<"F003", "F009">>, files |-> <<"src/App.tsx">>,
    commands |-> "", scope |-> "layout",
    decisions |-> <<"D003", "D007">>, edge_cases |-> <<"EC001">>,
    code_refs |-> <<"code/typescript.md#components">> ]

shape_bare ==
  [ title |-> "Plan Card", objective |-> "Create the plan card.",
    depends |-> <<"F010">>, files |-> <<"src/plan.tsx", "src/card.tsx">>,
    commands |-> "bun x shadcn@latest add card", scope |-> "plans" ]

shape_mixed ==
  [ title |-> "vite build", objective |-> "Configure the build.",
    depends |-> <<>>, files |-> <<>>,
    commands |-> "", scope |-> "layout",
    decisions |-> <<>>, edge_cases |-> <<"EC002", "EC004">>,
    code_refs |-> <<>> ]

Shapes == <<shape_full, shape_bare, shape_mixed>>

with_num(shape, n) ==
  [k \in DOMAIN shape \cup {"num"} |-> IF k = "num" THEN n ELSE shape[k]]

without_key(p, key) ==
  [k \in DOMAIN p \ {key} |-> p[k]]

\* First sequence numbers of the generated lists: one far from LastNum and
\* one whose lists reach and pass it.
FirstNums == {1, LastNum - 1}

DenseLists ==
  UNION { UNION { { [j \in 1..len |-> with_num(Shapes[sh[j]], first + j - 1)] :
                    sh \in [1..len -> 1..Len(Shapes)] } :
                  len \in 0..MaxRecords } :
          first \in FirstNums }

\* Lists that break the data model: the last record lacks a key the code
\* reads with p[...], repeats the previous number, or skips a number.
DefectBases ==
  { ps \in DenseLists : Len(ps) >= 2 /\ ps[1]["num"] = 1 }

MissingKeyLists ==
  { [ps EXCEPT ![Len(ps)] = without_key(@, key)] :
      ps \in DefectBases, key \in {"num", "title", "scope"} }

DuplicateLists ==
  { [ps EXCEPT ![Len(ps)] = with_num(@, ps[Len(ps) - 1]["num"])] : ps \in DefectBases }

GapLists ==
  { [ps EXCEPT ![Len(ps)] = with_num(@, @["num"] + 1)] : ps \in DefectBases }

Inputs ==
  {prompts_table} \cup DenseLists \cup MissingKeyLists \cup DuplicateLists \cup GapLists

stale_content ==
  << <<"# stale">>, <<"left by an earlier version">> >>

\* Directory contents a run can start from: the directory with no file, or
\* with an unrelated file and a stale file under the first record's name.
InitialFiles(ps) ==
  { [fn \in {} |-> <<>>] }
  \cup { [fn \in {base_dir \o "/manifest.jsonl"}
                 \cup (IF ps # <<>> /\ {"num", "scope"} \subseteq DOMAIN ps[1]
                       THEN {base_dir \o "/" \o Fmt(ps[1]["num"], 2) \o "-" \o ps[1]["scope"] \o ".md"}
                       ELSE {})
            |-> stale_content] }

(***************************************************************************)
(* State.                                                                  *)
(***************************************************************************)
VARIABLES
  prompts,      \* the module-level list of records
  dir_exists,   \* whether base_dir exists
  files,        \* base_dir: file name -> content (sequence of lines)
  dir0,         \* dir_exists when the current run started
  files0,       \* files when the current run started
  runs,         \* number of runs started
  pc,           \* position of the script
  i,            \* index of the record the for loop is at
  num,          \* loop local
  filename,     \* loop local
  content,      \* loop local
  open_files,   \* names of the files currently open
  pending,      \* exception raised inside the with body: <<>> or <<e>>
  stdout,       \* lines printed
  stderr,       \* uncaught exception reported by the interpreter
  exit_code,    \* <<>> while running, <<0>> or <<1>> after
  trace         \* effects of the current run, in order

vars ==
  <<prompts, dir_exists, files, dir0, files0, runs, pc, i, num, filename,
    content, open_files, pending, stdout, stderr, exit_code, trace>>

Init ==
  /\ prompts \in Inputs
  /\ dir_exists \in BOOLEAN
  /\ files \in (IF dir_exists THEN InitialFiles(prompts) ELSE { [fn \in {} |-> <<>>] })
  /\ dir0 = dir_exists
  /\ files0 = files
  /\ runs = 1
  /\ pc = "for"
  /\ i = 1
  /\ num = 0
  /\ filename = ""
  /\ content = <<>>
  /\ open_files = {}
  /\ pending = <<>>
  /\ stdout = <<>>
  /\ stderr = <<>>
  /\ exit_code = <<>>
  /\ trace = <<>>

(***************************************************************************)
(* Exceptions.  An OSError raised by open() carries the file name; one     *)
(* raised by write() or by the flush in close() does not.                  *)
(***************************************************************************)
KeyError(key) ==
  [type |-> "KeyError", arg |-> key, filename |-> ""]

FileNotFoundError(fn) ==
  [type |-> "FileNotFoundError", arg |-> "[Errno 2] No such file or directory", filename |-> fn]

PermissionError(fn) ==
  [type |-> "PermissionError", arg |-> "[Errno 13] Permission denied", filename |-> fn]

NoSpaceError ==
  [type |-> "OSError", arg |-> "[Errno 28] No space left on device", filename |-> ""]

\* An exception nothing catches: the interpreter prints the traceback and
\* exits with status 1.
Uncaught(e) ==
  /\ stderr' = Append(stderr, e)
  /\ exit_code' = <<1>>
  /\ pc' = "done"
  /\ trace' = Append(trace, <<"error", i>>)

\* The first key among those the loop body reads with p[...], in the order
\* it reads them, that the record lacks; "" if none.
missing_key(p) ==
  IF "num" \notin DOMAIN p THEN "num"
  ELSE IF "scope" \notin DOMAIN p THEN "scope"
  ELSE IF "title" \notin DOMAIN p THEN "title"
  ELSE IF "objective" \notin DOMAIN p THEN "objective"
  ELSE ""

(***************************************************************************)
(* The generation loop.                                                    *)
(***************************************************************************)
\* for p in prompts: num, filename and content of the next record.
ForBody ==
  /\ pc = "for"
  /\ i <= Len(prompts)
  /\ missing_key(prompts[i]) = ""
  /\ num' = prompts[i]["num"]
  /\ filename' = filename_of(prompts[i])
  /\ content' = generate_prompt(prompts[i])
  /\ pc' = "open"
  /\ UNCHANGED <<prompts, dir_exists, files, dir0, files0, runs, i, open_files,
                 pending, stdout, stderr, exit_code, trace>>

ForKeyError ==
  /\ pc = "for"
  /\ i <= Len(prompts)
  /\ missing_key(prompts[i]) # ""
  /\ Uncaught(KeyError(missing_key(prompts[i])))
  /\ UNCHANGED <<prompts, dir_exists, files, dir0, files0, runs, i, num, filename,
                 content, open_files, pending, stdout>>

ForExhausted ==
  /\ pc = "for"
  /\ i > Len(prompts)
  /\ pc' = "summary"
  /\ UNCHANGED <<prompts, dir_exists, files, dir0, files0, runs, i, num, filename,
                 content, open_files, pending, stdout, stderr, exit_code, trace>>

\* Variant: mode 'a', an existing file keeps its content.
open_a(fs, fn) ==
  [g \in DOMAIN fs \cup {fn} |-> IF g \in DOMAIN fs THEN fs[g] ELSE <<>>]

\* open(filename, 'w'): the file is created, or emptied if it exists.
open_w(fs, fn) ==
  [g \in DOMAIN fs \cup {fn} |-> IF g = fn THEN <<>> ELSE fs[g]]

OpenOk ==
  /\ pc = "open"
  /\ dir_exists
  /\ files' = open_w(files, filename)
  /\ open_files' = open_files \cup {filename}
  /\ pc' = "write"
  /\ trace' = Append(trace, <<"open", i>>)
  /\ UNCHANGED <<prompts, dir_exists, dir0, files0, runs, i, num, filename, content,
                 pending, stdout, stderr, exit_code>>

OpenFail ==
  /\ pc = "open"
  /\ \E e \in (IF dir_exists THEN {PermissionError(filename)}
                             ELSE {FileNotFoundError(filename)}) :
       Uncaught(e)
  /\ UNCHANGED <<prompts, dir_exists, files, dir0, files0, runs, i, num, filename,
                 content, open_files, pending, stdout>>

\* f.write(content)
write_to(fs, fn, text) ==
  [fs EXCEPT ![fn] = @ \o text]

WriteOk ==
  /\ pc = "write"
  /\ files' = write_to(files, filename, content)
  /\ pc' = "close"
  /\ trace' = Append(trace, <<"write", i>>)
  /\ UNCHANGED <<prompts, dir_exists, dir0, files0, runs, i, num, filename, content,
                 open_files, pending, stdout, stderr, exit_code>>

\* The write raises: nothing, or only a leading part, reached the file.  The
\* with statement still runs the file's __exit__.
WriteFail ==
  /\ pc = "write"
  /\ \E k \in {0, 1} : files' = write_to(files, filename, SubSeq(content, 1, k))
  /\ pending' = <<NoSpaceError>>
  /\ pc' = "close"
  /\ UNCHANGED <<prompts, dir_exists, dir0, files0, runs, i, num, filename, content,
                 open_files, stdout, stderr, exit_code, trace>>

\* Leaving the with block closes the file.
CloseOk ==
  /\ pc = "close"
  /\ pending = <<>>
  /\ open_files' = open_files \ {filename}
  /\ pc' = "print"
  /\ trace' = Append(trace, <<"close", i>>)
  /\ UNCHANGED <<prompts, dir_exists, files, dir0, files0, runs, i, num, filename,
                 content, pending, stdout, stderr, exit_code>>

\* Variant: no with statement, the exception leaves the file open.
CloseReraise_leak ==
  /\ pc = "close"
  /\ pending # <<>>
  /\ pending' = <<>>
  /\ Uncaught(pending[1])
  /\ UNCHANGED <<prompts, dir_exists, files, dir0, files0, runs, i, num, filename,
                 content, open_files, stdout>>

\* Leaving the with block on an exception closes the file and re-raises.
CloseReraise ==
  /\ pc = "close"
  /\ pending # <<>>
  /\ open_files' = open_files \ {filename}
  /\ pending' = <<>>
  /\ Uncaught(pending[1])
  /\ UNCHANGED <<prompts, dir_exists, files, dir0, files0, runs, i, num, filename,
                 content, stdout>>

\* The flush done by close() fails: the file is closed and the error raised.
CloseFail ==
  /\ pc = "close"
  /\ pending = <<>>
  /\ open_files' = open_files \ {filename}
  /\ Uncaught(NoSpaceError)
  /\ UNCHANGED <<prompts, dir_exists, files, dir0, files0, runs, i, num, filename,
                 content, pending, stdout>>

\* Variant: the loop advances by two records.
PrintCreated_skip ==
  /\ pc = "print"
  /\ stdout' = Append(stdout, <<"Created F", Fmt(num, 3)>>)
  /\ trace' = Append(trace, <<"created", i>>)
  /\ i' = i + 2
  /\ pc' = "for"
  /\ UNCHANGED <<prompts, dir_exists, files, dir0, files0, runs, num, filename,
                 content, open_files, pending, stderr, exit_code>>

\* print(f"Created F{num:03d}") and on to the next record.
PrintCreated ==
  /\ pc = "print"
  /\ stdout' = Append(stdout, <<"Created F", Fmt(num, 3)>>)
  /\ trace' = Append(trace, <<"created", i>>)
  /\ i' = i + 1
  /\ pc' = "for"
  /\ UNCHANGED <<prompts, dir_exists, files, dir0, files0, runs, num, filename,
                 content, open_files, pending, stderr, exit_code>>

\* print(f"\nTotal prompts created: {len(prompts)}") and normal exit.
Summary ==
  /\ pc = "summary"
  /\ stdout' = stdout \o << <<"">>, <<"Total prompts created: ", Dec(Len(prompts))>> >>
  /\ trace' = Append(trace, <<"summary", i>>)
  /\ exit_code' = <<0>>
  /\ pc' = "done"
  /\ UNCHANGED <<prompts, dir_exists, files, dir0, files0, runs, i, num, filename,
                 content, open_files, pending, stderr>>

\* The script is run again on the directory a run that exited 0 left.
Rerun ==
  /\ pc = "done"
  /\ exit_code = <<0>>
  /\ runs < MaxRuns
  /\ runs' = runs + 1
  /\ dir0' = dir_exists
  /\ files0' = files
  /\ pc' = "for"
  /\ i' = 1
  /\ num' = 0
  /\ filename' = ""
  /\ content' = <<>>
  /\ pending' = <<>>
  /\ stdout' = <<>>
  /\ stderr' = <<>>
  /\ exit_code' = <<>>
  /\ trace' = <<>>
  /\ UNCHANGED <<prompts, dir_exists, files, open_files>>

Next ==
  \/ ForBody
  \/ ForKeyError
  \/ ForExhausted
  \/ OpenOk
  \/ OpenFail
  \/ WriteOk
  \/ WriteFail
  \/ CloseOk
  \/ CloseReraise
  \/ CloseFail
  \/ PrintCreated
  \/ Summary
  \/ Rerun

Spec ==
  Init /\ [][Next]_vars

TypeOK ==
  /\ pc \in {"for", "open", "write", "close", "print", "summary", "done"}
  /\ runs \in 1..MaxRuns
  /\ i \in 1..(Len(prompts) + 1)

(***************************************************************************)
(* Vocabulary of the properties.                                           *)
(***************************************************************************)
\* content holds the document of prompts[i].
Rendered ==
  pc \in {"open", "write", "close", "print"}

Succeeded ==
  pc = "done" /\ exit_code = <<0>>

Failed ==
  pc = "done" /\ exit_code = <<1>>

\* Every record has the fields the data model requires.
Complete(ps) ==
  \A k \in 1..Len(ps) : {"num", "title", "objective", "scope"} \subseteq DOMAIN ps[k]

\* Sequence numbers are dense and increasing along the list.
Dense(ps) ==
  /\ Complete(ps)
  /\ \A k \in 1..(Len(ps) - 1) : ps[k + 1]["num"] = ps[k]["num"] + 1

UniquePairs(ps) ==
  /\ Complete(ps)
  /\ \A a, b \in 1..Len(ps) :
       a # b => <<ps[a]["num"], ps[a]["scope"]>> # <<ps[b]["num"], ps[b]["scope"]>>

Nums(ps) ==
  { ps[k]["num"] : k \in 1..Len(ps) }

\* <2-digit number>-<category_tag>.md inside the output directory.
TwoDigit(n) ==
  IF n < 10 THEN "0" \o Dec(n) ELSE Dec(n)

ExpectedPath(p) ==
  base_dir \o "/" \o TwoDigit(p["num"]) \o "-" \o p["scope"] \o ".md"

pointer_line(n) ==
  <<"Proceed to: ", BT, "prompts/", Fmt(n, 2), "-*.md", BT, " (F", Fmt(n, 3), ")">>

sentinel_line ==
  <<"All features complete! Create manifest.jsonl and README.md.">>

HasLine(doc, line) ==
  \E a \in 1..Len(doc) : doc[a] = line

\* Some line of the document starts with the given piece.
HasLineStarting(doc, piece) ==
  \E a \in 1..Len(doc) : doc[a] # <<>> /\ doc[a][1] = piece

\* An optional list field of a record, absent meaning empty.
Refs(p, key) ==
  IF key \in DOMAIN p THEN p[key] ELSE <<>>

\* Records for which the current run has produced an effect of the kind.
Done(kind) ==
  { k \in 1..Len(prompts) : \E a \in 1..Len(trace) : trace[a] = <<kind, k>> }

At(kind, k) ==
  CHOOSE a \in 1..Len(trace) : trace[a] = <<kind, k>>

CreatedNotices ==
  { a \in 1..Len(stdout) : stdout[a][1] = "Created F" }

(***************************************************************************)
(* Properties.                                                             *)
(***************************************************************************)
\* C1: in a record list with dense, increasing numbers, the document of a
\* record whose successor number exists in the list ends with the pointer to
\* the successor's file, and the document of the record with the largest
\* number ends with the completion sentinel and holds no pointer.
C1_FooterFollowsRecordSet ==
  (Rendered /\ Dense(prompts)) =>
    LET n == prompts[i]["num"]
        last == content[Len(content)]
    IN  /\ (n + 1 \in Nums(prompts)) => last = pointer_line(n + 1)
        /\ (\A m \in Nums(prompts) : m <= n) =>
             /\ last = sentinel_line
             /\ ~HasLineStarting(content, "Proceed to: ")

\* C2: a run that succeeds on a directory that was empty leaves exactly one
\* file per record, named <2-digit number>-<scope>.md and holding the
\* record's document; it prints one Created notice per record and the
\* summary reports the number of records.
C2_CompleteRunWritesAll ==
  (Succeeded /\ dir0 /\ DOMAIN files0 = {} /\ UniquePairs(prompts)) =>
    /\ DOMAIN files = { ExpectedPath(prompts[k]) : k \in 1..Len(prompts) }
    /\ Cardinality(DOMAIN files) = Len(prompts)
    /\ \A k \in 1..Len(prompts) :
         files[ExpectedPath(prompts[k])] = generate_prompt(prompts[k])
    /\ Cardinality(CreatedNotices) = Len(prompts)
    /\ stdout[Len(stdout)] = <<"Total prompts created: ", Dec(Len(prompts))>>

C2_Witness ==
  /\ Succeeded
  /\ dir0
  /\ DOMAIN files0 = {}
  /\ Len(prompts) >= 2
  /\ Cardinality(DOMAIN files) = Len(prompts)
  /\ Cardinality(CreatedNotices) = Len(prompts)

\* C3: a record list that breaks the data model (a missing required field,
\* a repeated or skipped number) is rejected before anything is written or
\* announced, and the run fails.
C3_InvalidRejectedBeforeOutput ==
  ~Dense(prompts) =>
    /\ Done("open") = {}
    /\ files = files0
    /\ CreatedNotices = {}
    /\ pc = "done" => exit_code = <<1>>

\* C4: a run ended by a failure to open or write the file of a record exits
\* non-zero with a report that names that record and the I/O error, and has
\* printed no Created notice for it.
C4_FailureNamesRecord ==
  (pc = "done" /\ stderr # <<>> /\ stderr[1]["type"] # "KeyError") =>
    /\ exit_code = <<1>>
    /\ stderr[1]["arg"] # ""
    /\ stderr[1]["filename"] = filename
    /\ i \notin Done("created")

\* C5: a run started without the output directory creates it and writes
\* every file; the missing directory makes no open or write fail.
C5_MissingDirectoryCreated ==
  (~dir0 /\ Complete(prompts) /\ Len(prompts) >= 1) =>
    /\ \A a \in 1..Len(stderr) : stderr[a]["type"] # "FileNotFoundError"
    /\ pc = "done" =>
         /\ dir_exists
         /\ \A k \in 1..Len(prompts) : ExpectedPath(prompts[k]) \in DOMAIN files

\* C6: a successful run that follows a successful run on the same directory
\* leaves the directory as it found it: the same files with the same
\* content.
C6_SecondRunChangesNothing ==
  (Succeeded /\ runs >= 2) =>
    /\ dir_exists = dir0
    /\ files = files0

C6_Witness ==
  /\ Succeeded
  /\ runs = 2
  /\ Len(prompts) >= 2
  /\ base_dir \o "/manifest.jsonl" \in DOMAIN files
  /\ files[ExpectedPath(prompts[1])] = generate_prompt(prompts[1])

\* C7: at most one file is open at any time; no file is open when a Created
\* notice is printed, when the next record is taken, or when the run has
\* ended, normally or on a failure.
C7_ScopedWrite ==
  LET closed == Done("close")
  IN  /\ Cardinality(open_files) <= 1
      /\ pc \in {"for", "open", "print", "summary", "done"} => open_files = {}
      /\ \A k \in Done("created") :
           k \in closed /\ At("close", k) < At("created", k)

C7_Witness ==
  /\ Failed
  /\ stderr[1]["type"] = "OSError"
  /\ i >= 2
  /\ i \in Done("open")
  /\ i \notin Done("write")
  /\ open_files = {}

\* C8: files are written in list order without skipping a record, a Created
\* notice follows the write of its record, and the summary is printed only
\* after every record was written and announced, never after a failure.
C8_InputOrder ==
  LET written == Done("write")
      created == Done("created")
      summary == HasLineStarting(stdout, "Total prompts created: ")
  IN  /\ \E m \in 0..Len(prompts) : written = 1..m
      /\ \A k \in written : k > 1 => At("write", k - 1) < At("write", k)
      /\ \A k \in created : k \in written /\ At("write", k) < At("created", k)
      /\ Cardinality(CreatedNotices) = Cardinality(created)
      /\ summary =>
           /\ stderr = <<>>
           /\ written = 1..Len(prompts)
           /\ created = 1..Len(prompts)
           /\ Cardinality(CreatedNotices) = Len(prompts)
      /\ Failed => ~summary

C8_Witness ==
  /\ Succeeded
  /\ Len(prompts) >= 3
  /\ HasLineStarting(stdout, "Total prompts created: ")
  /\ At("write", 1) < At("created", 1)
  /\ At("created", 1) < At("write", 2)
  /\ At("write", 2) < At("write", 3)

\* C9: in the document of a record, the Relevant Decisions section and the
\* Decisions commit line are present exactly when decisions is non-empty,
\* the Edge Cases to Handle section and the Edge Cases commit line exactly
\* when edge_cases is non-empty, and the Code References section exactly
\* when code_refs is non-empty; an omitted field counts as empty.
C9_ConditionalSections ==
  Rendered =>
    LET p == prompts[i]
    IN  /\ HasLine(content, <<"## Relevant Decisions">>) <=> Refs(p, "decisions") # <<>>
        /\ HasLineStarting(content, "Decisions: ") <=> Refs(p, "decisions") # <<>>
        /\ HasLine(content, <<"## Edge Cases to Handle">>) <=> Refs(p, "edge_cases") # <<>>
        /\ HasLineStarting(content, "Edge Cases: ") <=> Refs(p, "edge_cases") # <<>>
        /\ HasLine(content, <<"## Code References">>) <=> Refs(p, "code_refs") # <<>>

C9_Witness ==
  /\ pc = "write"
  /\ "decisions" \notin DOMAIN prompts[i]
  /\ "edge_cases" \in DOMAIN prompts[i]
  /\ prompts[i]["edge_cases"] # <<>>
  /\ ~HasLine(content, <<"## Relevant Decisions">>)
  /\ HasLineStarting(content, "Edge Cases: ")

\* C10: two records of the list whose (num, scope) pairs differ get
\* different file names, so with distinct pairs every record that was
\* written has a file of its own; the hardcoded table, where scopes repeat,
\* yields as many names as records.
C10_FilenameInjective ==
  /\ \A a, b \in 1..Len(prompts) :
       ( /\ {"num", "scope"} \subseteq DOMAIN prompts[a]
         /\ {"num", "scope"} \subseteq DOMAIN prompts[b]
         /\ <<prompts[a]["num"], prompts[a]["scope"]>>
              # <<prompts[b]["num"], prompts[b]["scope"]>> )
       => filename_of(prompts[a]) # filename_of(prompts[b])
  /\ UniquePairs(prompts) =>
       Cardinality({ filename_of(prompts[k]) : k \in Done("write") })
         = Cardinality(Done("write"))
  /\ prompts = prompts_table =>
       Cardinality({ filename_of(prompts[k]) : k \in 1..Len(prompts) }) = Len(prompts)

C10_Witness ==
  /\ Succeeded
  /\ prompts = prompts_table
  /\ \E a, b \in 1..Len(prompts) : a # b /\ prompts[a]["scope"] = prompts[b]["scope"]
  /\ Cardinality({ g \in DOMAIN files : files[g] # stale_content }) = Len(prompts)
====
